---- MODULE Spec2Model ----
(***************************************************************************)
(* Model of fiftyone/factory/repos/execution_store.py:                     *)
(* MongoExecutionStoreRepo over one MongoDB collection that carries the    *)
(* indexes built by _create_indexes (the unique index on                   *)
(* (store_name, key, dataset_id) and the TTL index on expires_at).         *)
(*                                                                         *)
(* The collection is a bag of documents: a document is a record without    *)
(* its _id, and its multiplicity in the bag is the number of documents     *)
(* (distinct _id values) that carry exactly these fields.                  *)
(*                                                                         *)
(* Optional values (Python None / a missing field) are sequences of        *)
(* length at most one: None is << >> and a present value x is << x >>.     *)
(* dataset_id and value are strings, with the string NoneStr for None.     *)
(***************************************************************************)
EXTENDS Integers, Sequences, FiniteSets, Bags, TLC

\* ------------------------------------------------------------------ bounds
\* The wall clock runs over 0 .. MaxTime.
MaxTime == 1
\* Inserts are only attempted while the collection holds fewer documents:
\* MaxDocs in the specifications over one store, MaxStoreDocs in the
\* specification over two stores.
MaxDocs == 2
MaxStoreDocs == 3

\* --------------------------------------------------------------- constants
None == << >>
Some(x) == << x >>
NoneStr == "None"
\* The reserved key of a store's marker document.
STORE_KEY == "__store__"

\* The inputs the operations are called with.
Stores == {"A", "B"}
Keys == {"k1", STORE_KEY}
UserKeys == Keys \ {STORE_KEY}
\* _dataset_id of a repository instance: NoneStr is the global context.
Contexts == {NoneStr, "ds1"}
Values == {"v1", "v2"}
TTLs == {None, Some(-1), Some(0), Some(1)}
Procs == {"p1", "p2"}

VARIABLES
    coll,   \* the execution_store collection: a bag of documents
    now,    \* the wall clock read by datetime.utcnow()
    last,   \* the last call made: method, instance, arguments and outcome
    calls   \* set_key calls in flight in the concurrent specification

vars == << coll, now, last, calls >>

\* ------------------------------------------------------- documents (models)
\* StoreDocument(store_name, dataset_id).to_mongo_dict()
StoreDocument(store_name, dataset_id) ==
    [ store_name |-> store_name, key |-> STORE_KEY, dataset_id |-> dataset_id,
      value |-> NoneStr, created_at |-> None, updated_at |-> None,
      expires_at |-> None ]

\* KeyDocument(...) as set_key builds it; set_key does not pass created_at,
\* which takes its default, the time of construction (here: built).
KeyDocument(store_name, key, value, built, updated_at, expires_at, dataset_id) ==
    [ store_name |-> store_name, key |-> key, dataset_id |-> dataset_id,
      value |-> value, created_at |-> Some(built), updated_at |-> updated_at,
      expires_at |-> expires_at ]

\* KeyDocument.get_expiration(ttl): now + ttl for a positive ttl, else None.
get_expiration(ttl) ==
    IF ttl # None /\ ttl[1] > 0 THEN Some(now + ttl[1]) ELSE None

\* Python truthiness of the ttl argument (`expiration if ttl else None`).
Truthy(ttl) == ttl # None /\ ttl[1] # 0

\* ------------------------------------------------------ collection (pymongo)
Docs == BagToSet(coll)

\* Mutant of Matches: the dataset_id clause dropped from the filter of the
\* global context (as set_key drops it from on_insert_fields).
MatchesNoGlobalFilter(d, store_name, key, dataset_id) ==
    /\ d.store_name = store_name
    /\ d.key = key
    /\ (dataset_id # NoneStr => d.dataset_id = dataset_id)

\* The equality filter dict(store_name=.., key=.., dataset_id=..); a filter
\* on dataset_id=None matches the documents whose dataset_id is null/missing.
Matches(d, store_name, key, dataset_id) ==
    /\ d.store_name = store_name
    /\ d.key = key
    /\ d.dataset_id = dataset_id

Find(store_name, key, dataset_id) ==
    { d \in Docs : Matches(d, store_name, key, dataset_id) }

\* The sub-bag of the documents of bag that are in the set keep.
Restrict(bag, keep) ==
    [ d \in BagToSet(bag) \cap keep |-> bag[d] ]

\* count_documents: the number of documents of the collection among hits,
\* the set of the documents that match the filter.
CountDocuments(hits) == BagCardinality(Restrict(coll, hits))

\* Mutant of UniqueIndexViolated: the unique index was never created.
NoUniqueIndex(doc) == FALSE

\* unique_store_index: an insert of doc is rejected (DuplicateKeyError) when
\* a document with the same (store_name, key, dataset_id) is present.
UniqueIndexViolated(doc) ==
    Find(doc.store_name, doc.key, doc.dataset_id) # {}

InsertOne(doc) == coll (+) SetToBag({doc})
RemoveOne(doc) == coll (-) SetToBag({doc})
ReplaceOne(old, new) == (coll (-) SetToBag({old})) (+) SetToBag({new})

\* The record of a call: the method, the context of the instance it was
\* called on, its store_name and key arguments, and what it returned.
Call(op, ctx, store, key, ret) ==
    [ op |-> op, ctx |-> ctx, store |-> store, key |-> key, ret |-> ret ]

DuplicateKeyError == "DuplicateKeyError"

\* The outcome of a call of set_key that ends in the exception e.
Raised(e) == [ error |-> e ]

\* f overridden and extended by the fields of g.
Merge(f, g) ==
    [ x \in (DOMAIN f) \cup (DOMAIN g) |-> IF x \in DOMAIN g THEN g[x] ELSE f[x] ]

\* A bag as a sequence, every document as often as it occurs (the order of a
\* cursor is whatever the engine yields).
RECURSIVE BagToSeq(_)
BagToSeq(bag) ==
    IF BagToSet(bag) = {} THEN << >>
    ELSE LET d == CHOOSE x \in BagToSet(bag) : TRUE
         IN  << d >> \o BagToSeq(bag (-) SetToBag({d}))

\* ------------------------------------------------------------ read methods
IsMarker(d, dataset_id) == d.key = STORE_KEY /\ d.dataset_id = dataset_id

has_store(ctx, store_name) == Find(store_name, STORE_KEY, ctx) # {}

list_stores(ctx) ==
    LET result == BagToSeq(Restrict(coll, { d \in Docs : IsMarker(d, ctx) }))
    IN  [ i \in 1 .. Len(result) |-> result[i].store_name ]

count_stores(ctx) == CountDocuments({ d \in Docs : IsMarker(d, ctx) })

\* find_one: a matching document, or None.
get_key(ctx, store_name, key) ==
    IF Find(store_name, key, ctx) = {} THEN None
    ELSE Some(CHOOSE d \in Find(store_name, key, ctx) : TRUE)

\* Mutant of IsUserKey: the key={"$ne": "__store__"} clause left out.
IsUserKeyNoSentinelClause(d, ctx, store_name) ==
    /\ d.store_name = store_name
    /\ d.dataset_id = ctx

\* The filter of list_keys: dict(store_name, key={"$ne": "__store__"}, dataset_id)
IsUserKey(d, ctx, store_name) ==
    /\ d.store_name = store_name
    /\ d.key # STORE_KEY
    /\ d.dataset_id = ctx

list_keys(ctx, store_name) ==
    LET result == BagToSeq(Restrict(coll,
                     { d \in Docs : IsUserKey(d, ctx, store_name) }))
    IN  [ i \in 1 .. Len(result) |-> result[i].key ]

count_keys(ctx, store_name) ==
    CountDocuments({ d \in Docs : IsUserKey(d, ctx, store_name) })

\* Mutant of has_store_global: the search is limited to the owned contexts
\* (the markers of the global context are passed over).
has_store_globalOwnedOnly(store_name) ==
    \E d \in Docs : /\ d.store_name = store_name
                    /\ d.key = STORE_KEY
                    /\ d.dataset_id # NoneStr

\* find_one(dict(store_name, key="__store__")): no clause on dataset_id.
has_store_global(store_name) ==
    \E d \in Docs : d.store_name = store_name /\ d.key = STORE_KEY

list_stores_global ==
    LET result == BagToSeq(Restrict(coll, { d \in Docs : d.key = STORE_KEY }))
    IN  [ i \in 1 .. Len(result) |-> result[i].store_name ]

count_stores_global == CountDocuments({ d \in Docs : d.key = STORE_KEY })

\* ----------------------------------------------------------- write methods
Init ==
    /\ coll = EmptyBag
    /\ now = 0
    /\ last = Call("init", NoneStr, NoneStr, NoneStr, NoneStr)
    /\ calls = [ p \in Procs |-> [ pc |-> "idle" ] ]

\* create_store: insert_one of the marker; the unique index rejects the
\* insert when the context already holds a marker of that name.
CreateStore(ctx, store_name) ==
    LET store_doc == StoreDocument(store_name, ctx)
    IN  /\ IF UniqueIndexViolated(store_doc)
              THEN /\ coll' = coll
                   /\ last' = Call("create_store", ctx, store_name, STORE_KEY,
                                   DuplicateKeyError)
              ELSE /\ coll' = InsertOne(store_doc)
                   /\ last' = Call("create_store", ctx, store_name, STORE_KEY,
                                   store_doc.store_name)
        /\ UNCHANGED << now, calls >>

\* Mutant of DeleteStore: delete_one in the place of delete_many.
DeleteStoreOneRecord(ctx, store_name) ==
    LET hits == { d \in Docs : d.store_name = store_name /\ d.dataset_id = ctx }
    IN  /\ IF hits # {}
              THEN /\ coll' = RemoveOne(CHOOSE x \in hits : TRUE)
                   /\ last' = Call("delete_store", ctx, store_name, NoneStr, 1)
              ELSE /\ coll' = coll
                   /\ last' = Call("delete_store", ctx, store_name, NoneStr, 0)
        /\ UNCHANGED << now, calls >>

\* Mutant of DeleteStore: the filter of delete_many loses its dataset_id.
DeleteStoreEveryContext(ctx, store_name) ==
    LET Hit(d) == d.store_name = store_name
    IN  /\ coll' = Restrict(coll, { d \in Docs : ~Hit(d) })
        /\ last' = Call("delete_store", ctx, store_name, NoneStr,
                        CountDocuments({ d \in Docs : Hit(d) }))
        /\ UNCHANGED << now, calls >>

\* delete_store: delete_many(dict(store_name, dataset_id)), deleted_count.
DeleteStore(ctx, store_name) ==
    LET Hit(d) == d.store_name = store_name /\ d.dataset_id = ctx
    IN  /\ coll' = Restrict(coll, { d \in Docs : ~Hit(d) })
        /\ last' = Call("delete_store", ctx, store_name, NoneStr,
                        CountDocuments({ d \in Docs : Hit(d) }))
        /\ UNCHANGED << now, calls >>

\* The fields set_key leaves out of $set.
SetExcluded == {"created_at", "expires_at", "store_name", "key", "dataset_id"}

\* Mutant of SetFields: created_at not excluded from $set.
SetFieldsWithCreatedAt(key_doc) ==
    [ f \in (DOMAIN key_doc) \ (SetExcluded \ {"created_at"}) |-> key_doc[f] ]

\* "$set": key_doc.to_mongo_dict() without the excluded fields.
SetFields(key_doc) ==
    [ f \in (DOMAIN key_doc) \ SetExcluded |-> key_doc[f] ]

\* "$setOnInsert": on_insert_fields; dataset_id is popped in the global context.
OnInsertFields(ctx, store_name, key, t, ttl, expiration) ==
    LET fields == [ store_name |-> store_name, key |-> key,
                    created_at |-> Some(t),
                    expires_at |-> IF Truthy(ttl) THEN expiration ELSE None,
                    dataset_id |-> ctx ]
    IN  IF ctx = NoneStr
          THEN [ f \in (DOMAIN fields) \ {"dataset_id"} |-> fields[f] ]
          ELSE fields

\* The document an upsert inserts: the filter's equality fields, then $set
\* and $setOnInsert.
Upserted(ctx, store_name, key, set, on_insert) ==
    Merge(Merge([ store_name |-> store_name, key |-> key, dataset_id |-> ctx ],
                set), on_insert)

\* The fields of a returned KeyDocument that the call record keeps (its
\* store_name, key and dataset_id are the call's own arguments).
Returned(key_doc) ==
    [ f \in {"value", "created_at", "updated_at", "expires_at"} |-> key_doc[f] ]

\* What set_key returns: key_doc with created_at = now when a document was
\* upserted, and with updated_at = now otherwise.
SetKeyResult(key_doc, upserted, t) ==
    IF upserted THEN Returned([ key_doc EXCEPT !.created_at = Some(t) ])
    ELSE Returned([ key_doc EXCEPT !.updated_at = Some(t) ])

\* Mutant of SetKey: set_key registers the store when it creates an entry
\* in a store that has no marker.
SetKeyCreatingStore(ctx, store_name, key, value, ttl) ==
    LET t == now
        expiration == get_expiration(ttl)
        key_doc == KeyDocument(store_name, key, value, t, Some(t), expiration, ctx)
        on_insert == OnInsertFields(ctx, store_name, key, t, ttl, expiration)
        found == Find(store_name, key, ctx)
        marker == IF key # STORE_KEY /\ Find(store_name, STORE_KEY, ctx) = {}
                    THEN SetToBag({StoreDocument(store_name, ctx)})
                    ELSE EmptyBag
    IN  /\ IF found # {}
              THEN LET d == CHOOSE x \in found : TRUE
                   IN  /\ coll' = ReplaceOne(d, Merge(d, SetFields(key_doc)))
                       /\ last' = Call("set_key", ctx, store_name, key,
                                       SetKeyResult(key_doc, FALSE, t))
              ELSE /\ coll' = InsertOne(Upserted(ctx, store_name, key,
                                                 SetFields(key_doc), on_insert))
                                 (+) marker
                   /\ last' = Call("set_key", ctx, store_name, key,
                                   SetKeyResult(key_doc, TRUE, t))
        /\ UNCHANGED << now, calls >>

\* set_key by one caller with no other call running meanwhile.
SetKey(ctx, store_name, key, value, ttl) ==
    LET t == now
        expiration == get_expiration(ttl)
        key_doc == KeyDocument(store_name, key, value, t, Some(t), expiration, ctx)
        on_insert == OnInsertFields(ctx, store_name, key, t, ttl, expiration)
        found == Find(store_name, key, ctx)
    IN  /\ IF found # {}
              THEN LET d == CHOOSE x \in found : TRUE
                   IN  /\ coll' = ReplaceOne(d, Merge(d, SetFields(key_doc)))
                       /\ last' = Call("set_key", ctx, store_name, key,
                                       SetKeyResult(key_doc, FALSE, t))
              ELSE /\ coll' = InsertOne(Upserted(ctx, store_name, key,
                                                 SetFields(key_doc), on_insert))
                   /\ last' = Call("set_key", ctx, store_name, key,
                                   SetKeyResult(key_doc, TRUE, t))
        /\ UNCHANGED << now, calls >>

\* Mutant of UpdateTtl: the update also sets updated_at to the time of the call.
UpdateTtlTouchesUpdatedAt(ctx, store_name, key, ttl) ==
    LET expiration == get_expiration(ttl)
        found == Find(store_name, key, ctx)
    IN  /\ IF found # {}
              THEN LET d == CHOOSE x \in found : TRUE
                       e == [ d EXCEPT !.expires_at = expiration,
                                       !.updated_at = Some(now) ]
                   IN  /\ coll' = ReplaceOne(d, e)
                       /\ last' = Call("update_ttl", ctx, store_name, key, e # d)
              ELSE /\ coll' = coll
                   /\ last' = Call("update_ttl", ctx, store_name, key, FALSE)
        /\ UNCHANGED << now, calls >>

\* update_ttl: update_one with $set expires_at; modified_count counts a
\* matched document only when the update changed it.
UpdateTtl(ctx, store_name, key, ttl) ==
    LET expiration == get_expiration(ttl)
        found == Find(store_name, key, ctx)
    IN  /\ IF found # {}
              THEN LET d == CHOOSE x \in found : TRUE
                       e == [ d EXCEPT !.expires_at = expiration ]
                   IN  /\ coll' = ReplaceOne(d, e)
                       /\ last' = Call("update_ttl", ctx, store_name, key, e # d)
              ELSE /\ coll' = coll
                   /\ last' = Call("update_ttl", ctx, store_name, key, FALSE)
        /\ UNCHANGED << now, calls >>

\* Mutant of DeleteKey: the filter loses its key clause and delete_many is used.
DeleteKeyWholeStore(ctx, store_name, key) ==
    LET Hit(d) == d.store_name = store_name /\ d.dataset_id = ctx
    IN  /\ coll' = Restrict(coll, { d \in Docs : ~Hit(d) })
        /\ last' = Call("delete_key", ctx, store_name, key,
                        CountDocuments({ d \in Docs : Hit(d) }) > 0)
        /\ UNCHANGED << now, calls >>

\* delete_key: delete_one, deleted_count > 0.
DeleteKey(ctx, store_name, key) ==
    LET found == Find(store_name, key, ctx)
    IN  /\ IF found # {}
              THEN /\ coll' = RemoveOne(CHOOSE x \in found : TRUE)
                   /\ last' = Call("delete_key", ctx, store_name, key, TRUE)
              ELSE /\ coll' = coll
                   /\ last' = Call("delete_key", ctx, store_name, key, FALSE)
        /\ UNCHANGED << now, calls >>

\* Mutant of Cleanup: delete_many with an empty filter.
CleanupEveryContext(ctx) ==
    /\ coll' = EmptyBag
    /\ last' = Call("cleanup", ctx, NoneStr, NoneStr, BagCardinality(coll))
    /\ UNCHANGED << now, calls >>

\* cleanup: delete_many(dict(dataset_id)), deleted_count.
Cleanup(ctx) ==
    LET Hit(d) == d.dataset_id = ctx
    IN  /\ coll' = Restrict(coll, { d \in Docs : ~Hit(d) })
        /\ last' = Call("cleanup", ctx, NoneStr, NoneStr,
                        CountDocuments({ d \in Docs : Hit(d) }))
        /\ UNCHANGED << now, calls >>

\* ------------------------------------------------------------- environment
\* The TTL index on expires_at (expireAfterSeconds=0): the engine's monitor
\* removes a document whose expires_at is a date that has passed.
\* Mutant of Expired: the monitor takes every dated document for expired.
ExpiredWhenDated(d) == d.expires_at # None

Expired(d) == d.expires_at # None /\ d.expires_at[1] <= now

TTLSweep(ctx, store_name, key) ==
    /\ \E d \in Find(store_name, key, ctx) :
          /\ Expired(d)
          /\ coll' = RemoveOne(d)
    /\ last' = Call("ttl_sweep", ctx, store_name, key, NoneStr)
    /\ UNCHANGED << now, calls >>

Tick ==
    /\ now < MaxTime
    /\ now' = now + 1
    /\ last' = Call("tick", NoneStr, NoneStr, NoneStr, NoneStr)
    /\ UNCHANGED << coll, calls >>

\* A call that would insert is made only while the collection holds fewer
\* than cap documents (the bound of the model).
Room(cap, ctx, store_name, key) ==
    Find(store_name, key, ctx) # {} \/ BagCardinality(coll) < cap

\* The calls of repository instances bound to the contexts, with arguments
\* drawn from the given sets.
Calls(stores, values, ttls, cap) ==
    \/ \E ctx \in Contexts, s \in stores :
          Room(cap, ctx, s, STORE_KEY) /\ CreateStore(ctx, s)
    \/ \E ctx \in Contexts, s \in stores : DeleteStore(ctx, s)
    \/ \E ctx \in Contexts, s \in stores, k \in Keys, v \in values, ttl \in ttls :
          Room(cap, ctx, s, k) /\ SetKey(ctx, s, k, v, ttl)
    \/ \E ctx \in Contexts, s \in stores, k \in Keys, ttl \in ttls :
          UpdateTtl(ctx, s, k, ttl)
    \/ \E ctx \in Contexts, s \in stores, k \in Keys : DeleteKey(ctx, s, k)
    \/ \E ctx \in Contexts : Cleanup(ctx)

\* The TTL monitor, on any document of the collection.
Sweep == \E ctx \in Contexts, s \in Stores, k \in Keys : TTLSweep(ctx, s, k)

\* One store, every value and ttl: the life of a key entry.
Next ==
    \/ Calls({"A"}, Values, TTLs, MaxDocs)
    \/ Sweep
    \/ Tick

Spec == Init /\ [][Next]_vars

\* One store, one value, ttl omitted or positive: the expiry of entries.
NextLive ==
    \/ Calls({"A"}, {"v1"}, {None, Some(1)}, MaxDocs)
    \/ Sweep
    \/ Tick

\* The TTL monitor of the engine runs periodically and removes every
\* document it finds expired: no expired document is passed over for ever.
SpecLive ==
    /\ Init
    /\ [][NextLive]_vars
    /\ \A ctx \in Contexts, s \in Stores, k \in Keys :
          WF_vars(TTLSweep(ctx, s, k))

\* Two stores in two contexts, one value and no ttl: the registry of stores.
\* No document carries an expiration, so the TTL monitor has nothing to do.
NextStores ==
    \/ Calls(Stores, {"v1"}, {None}, MaxStoreDocs)
    \/ Tick

SpecStores == Init /\ [][NextStores]_vars

\* ------------------------------------------- bulk deletes, interrupted
\* delete_many removes the matching documents one by one and is atomic per
\* document only: a run that is cut short (the process or the connection
\* dies) has removed a part of them, at least one and not all, and returns
\* nothing.  The caller p keeps what it was doing and the collection as the
\* run left it, to run the same delete again.
DeleteManyInterrupted(p, op, ctx, store_name, hits) ==
    /\ calls[p].pc \in {"idle", "interrupted"}
    /\ \E removed \in (SUBSET hits) \ {{}, hits} :
          /\ coll' = Restrict(coll, Docs \ removed)
          /\ calls' = [ calls EXCEPT ![p] =
                [ pc |-> "interrupted", op |-> op, ctx |-> ctx,
                  store |-> store_name, left |-> coll' ] ]
    /\ last' = Call("interrupted", ctx, store_name, NoneStr, op)
    /\ UNCHANGED now

\* delete_store cut short.
DeleteStoreInterrupted(p, ctx, store_name) ==
    DeleteManyInterrupted(p, "delete_store", ctx, store_name,
        { d \in Docs : d.store_name = store_name /\ d.dataset_id = ctx })

\* cleanup cut short.
CleanupInterrupted(p, ctx) ==
    DeleteManyInterrupted(p, "cleanup", ctx, NoneStr,
        { d \in Docs : d.dataset_id = ctx })

\* The calls on one store with no ttl, and the bulk deletes of one caller
\* that are cut short.
NextBulk ==
    \/ Calls({"A"}, {"v1"}, {None}, MaxStoreDocs)
    \/ \E ctx \in Contexts : DeleteStoreInterrupted("p1", ctx, "A")
    \/ \E ctx \in Contexts : CleanupInterrupted("p1", ctx)

SpecBulk == Init /\ [][NextBulk]_vars

\* ------------------------------------------------- set_key, step by step
\* Concurrent callers: a set_key call of caller p passes through the steps
\* below, and the steps of other calls may come between them.  The engine
\* executes update_one(upsert=True) as a lookup that either updates the
\* document it found in place, or is followed by an insert that the unique
\* index checks; an insert the index rejects makes the engine run the upsert
\* again.
Idle == [ pc |-> "idle" ]

\* Lines 83-122: read the clock, build key_doc and the update document.
SetKeyBegin(p, ctx, store_name, key, value, ttl) ==
    LET t == now
        expiration == get_expiration(ttl)
        key_doc == KeyDocument(store_name, key, value, t, Some(t), expiration, ctx)
    IN  /\ calls[p].pc = "idle"
        /\ calls' = [ calls EXCEPT ![p] =
              [ pc |-> "upsert", ctx |-> ctx, store |-> store_name, key |-> key,
                t |-> t, key_doc |-> key_doc, set |-> SetFields(key_doc),
                on_insert |-> OnInsertFields(ctx, store_name, key, t, ttl,
                                             expiration),
                upserted |-> FALSE, retried |-> FALSE ] ]
        /\ UNCHANGED << coll, now, last >>

\* Lines 125-129, the lookup: a matching document is updated in place.
SetKeyFind(p) ==
    LET c == calls[p]
        found == Find(c.store, c.key, c.ctx)
    IN  /\ c.pc = "upsert"
        /\ IF found # {}
              THEN LET d == CHOOSE x \in found : TRUE
                   IN  /\ coll' = ReplaceOne(d, Merge(d, c.set))
                       /\ calls' = [ calls EXCEPT ![p].pc = "return",
                                                  ![p].upserted = FALSE ]
              ELSE /\ coll' = coll
                   /\ calls' = [ calls EXCEPT ![p].pc = "insert" ]
        /\ UNCHANGED << now, last >>

\* Mutant of SetKeyInsert: the engine does not run a rejected upsert again,
\* update_one raises DuplicateKeyError.
SetKeyInsertNoRetry(p) ==
    LET c == calls[p]
        doc == Upserted(c.ctx, c.store, c.key, c.set, c.on_insert)
    IN  /\ c.pc = "insert"
        /\ IF UniqueIndexViolated(doc)
              THEN /\ coll' = coll
                   /\ calls' = [ calls EXCEPT ![p].pc = "raise" ]
              ELSE /\ coll' = InsertOne(doc)
                   /\ calls' = [ calls EXCEPT ![p].pc = "return",
                                              ![p].upserted = TRUE ]
        /\ UNCHANGED << now, last >>

\* Lines 125-129, the insert of the upsert, checked by the unique index; the
\* engine runs the upsert again when the index rejects its insert.
SetKeyInsert(p) ==
    LET c == calls[p]
        doc == Upserted(c.ctx, c.store, c.key, c.set, c.on_insert)
    IN  /\ c.pc = "insert"
        /\ IF UniqueIndexViolated(doc)
              THEN /\ coll' = coll
                   /\ calls' = [ calls EXCEPT ![p].pc = "upsert",
                                              ![p].retried = TRUE ]
              ELSE /\ coll' = InsertOne(doc)
                   /\ calls' = [ calls EXCEPT ![p].pc = "return",
                                              ![p].upserted = TRUE ]
        /\ UNCHANGED << now, last >>

\* Lines 131-136: the returned key_doc.  set_key catches nothing: an error
\* raised by update_one would be the outcome of the call.
SetKeyReturn(p) ==
    LET c == calls[p]
    IN  /\ c.pc \in {"return", "raise"}
        /\ last' = Call("set_key", c.ctx, c.store, c.key,
                        IF c.pc = "raise" THEN Raised(DuplicateKeyError)
                        ELSE SetKeyResult(c.key_doc, c.upserted, c.t))
        /\ calls' = [ calls EXCEPT ![p] = Idle ]
        /\ UNCHANGED << coll, now >>

\* Concurrent set_key calls on one store, with create_store, delete_key and
\* the clock in between.
NextConc ==
    \/ \E p \in Procs, ctx \in Contexts, k \in UserKeys, v \in Values :
          /\ BagCardinality(coll) < MaxDocs
          /\ SetKeyBegin(p, ctx, "A", k, v, None)
    \/ \E p \in Procs : SetKeyFind(p)
    \/ \E p \in Procs : SetKeyInsert(p)
    \/ \E p \in Procs : SetKeyReturn(p)
    \/ \E ctx \in Contexts :
          Room(MaxDocs, ctx, "A", STORE_KEY) /\ CreateStore(ctx, "A")
    \/ \E ctx \in Contexts, k \in UserKeys : DeleteKey(ctx, "A", k)
    \/ Tick

SpecConc == Init /\ [][NextConc]_vars

\* Concurrent set_key calls alone, each of them running on: a call that has
\* begun is not held back for ever at any of its steps.
NextSetKeys ==
    \/ \E p \in Procs, ctx \in Contexts, k \in UserKeys, v \in Values :
          /\ BagCardinality(coll) < MaxDocs
          /\ SetKeyBegin(p, ctx, "A", k, v, None)
    \/ \E p \in Procs : SetKeyFind(p)
    \/ \E p \in Procs : SetKeyInsert(p)
    \/ \E p \in Procs : SetKeyReturn(p)
    \/ Tick

SpecSetKeys ==
    /\ Init
    /\ [][NextSetKeys]_vars
    /\ \A p \in Procs :
          /\ WF_vars(SetKeyFind(p))
          /\ WF_vars(SetKeyInsert(p))
          /\ WF_vars(SetKeyReturn(p))

\* ==================================================================== claims
\* The stored document of (store_name, key) in context ctx.
Stored(ctx, store_name, key) == get_key(ctx, store_name, key)[1]

\* The documents that belong to the contexts other than ctx.
OtherContexts(ctx) == Restrict(coll, { d \in Docs : d.dataset_id # ctx })

\* Every step of a call records the call in last: this step is a call of
\* method op on the instance of context ctx with these arguments.
Did(op, ctx, store_name, key) ==
    /\ last'.op = op
    /\ last'.ctx = ctx
    /\ last'.store = store_name
    /\ last'.key = key

\* ---------------------------------------------------------------------- C1
\* C1: whatever the interleaving of concurrent set_key calls, the collection
\* holds at most one record per (store_name, key, context_id).
C1_UniqueEntries ==
    \A ctx \in Contexts, s \in Stores, k \in Keys :
        CountDocuments(Find(s, k, ctx)) <= 1

\* Two calls on the same (store, key, context) both found no entry; the
\* first has inserted it and the second is about to insert.
C1_Witness ==
    /\ calls["p1"].pc = "return"
    /\ calls["p1"].upserted
    /\ calls["p2"].pc = "insert"
    /\ calls["p2"].ctx = calls["p1"].ctx
    /\ calls["p2"].store = calls["p1"].store
    /\ calls["p2"].key = calls["p1"].key
    /\ get_key(calls["p1"].ctx, calls["p1"].store, calls["p1"].key) # None

\* ---------------------------------------------------------------------- C2
\* C2 as stated: a set_key on an entry that an earlier set_key wrote leaves
\* the new value to be read, keeps the stored created_at, and stores an
\* updated_at that is later than the one stored before.
C2_Original ==
    [][ \A ctx \in Contexts, s \in Stores, k \in UserKeys :
          ( /\ Did("set_key", ctx, s, k)
            /\ get_key(ctx, s, k) # None
            /\ Stored(ctx, s, k).updated_at # None )
          => /\ get_key(ctx, s, k)' # None
             /\ Stored(ctx, s, k)'.value = last'.ret.value
             /\ Stored(ctx, s, k)'.created_at = Stored(ctx, s, k).created_at
             /\ Stored(ctx, s, k)'.updated_at[1] > Stored(ctx, s, k).updated_at[1]
      ]_vars

\* C2 amended: as C2, but the stored updated_at is the clock reading of the
\* second call, which is not earlier than the one stored before (and equal
\* to it when both calls read the same instant).
C2_Amended ==
    [][ \A ctx \in Contexts, s \in Stores, k \in Keys :
          ( /\ Did("set_key", ctx, s, k)
            /\ get_key(ctx, s, k) # None
            /\ Stored(ctx, s, k).updated_at # None )
          => /\ get_key(ctx, s, k)' # None
             /\ \E v \in Values, ttl \in TTLs :
                   /\ SetKey(ctx, s, k, v, ttl)
                   /\ Stored(ctx, s, k)'.value = v
             /\ Stored(ctx, s, k)'.created_at = Stored(ctx, s, k).created_at
             /\ Stored(ctx, s, k)'.updated_at = Some(now)
             /\ Stored(ctx, s, k)'.updated_at[1] >= Stored(ctx, s, k).updated_at[1]
      ]_vars

\* An entry rewritten by a second set_key at a later time than it was created.
C2_Witness ==
    /\ last.op = "set_key"
    /\ get_key(last.ctx, last.store, last.key) # None
    /\ Stored(last.ctx, last.store, last.key).value = last.ret.value
    /\ Stored(last.ctx, last.store, last.key).created_at # None
    /\ Stored(last.ctx, last.store, last.key).updated_at = Some(now)
    /\ Stored(last.ctx, last.store, last.key).created_at[1] < now

\* ---------------------------------------------------------------------- C3
\* C3: right after set_key(store, key, v) in a context, get_key there
\* returns v, and get_key of the same (store, key) in every other context
\* returns what it returned before: null where that context never wrote it.
C3_ContextIsolation ==
    [][ \A ctx \in Contexts, s \in Stores, k \in Keys :
          Did("set_key", ctx, s, k)
          => /\ get_key(ctx, s, k)' # None
             /\ \E v \in Values, ttl \in TTLs :
                   /\ SetKey(ctx, s, k, v, ttl)
                   /\ Stored(ctx, s, k)'.value = v
             /\ \A other \in Contexts \ {ctx} :
                   /\ get_key(other, s, k)' = get_key(other, s, k)
                   /\ get_key(other, s, k) = None => get_key(other, s, k)' = None
      ]_vars

\* A key written in exactly one of the two contexts, by the last call.
C3_Witness ==
    /\ last.op = "set_key"
    /\ get_key(last.ctx, last.store, last.key) # None
    /\ Stored(last.ctx, last.store, last.key).value = last.ret.value
    /\ \A other \in Contexts \ {last.ctx} :
          get_key(other, last.store, last.key) = None
    /\ \E d \in Docs : d.dataset_id # last.ctx

\* ---------------------------------------------------------------------- C4
\* C4 as stated: set_key on an entry that exists stores the expiration of
\* this call: now + ttl for a (positive) ttl, null when the ttl is omitted.
C4_Claim ==
    [][ \A ctx \in Contexts, s \in Stores, k \in UserKeys :
          ( Did("set_key", ctx, s, k) /\ get_key(ctx, s, k) # None )
          => \A v \in Values, ttl \in { x \in TTLs : x = None \/ x[1] > 0 } :
               SetKey(ctx, s, k, v, ttl)
               => Stored(ctx, s, k)'.expires_at =
                     (IF ttl = None THEN None ELSE Some(now + ttl[1]))
      ]_vars

\* ---------------------------------------------------------------------- C5
Markers(ctx, store_name) ==
    CountDocuments(Find(store_name, STORE_KEY, ctx))

\* C5: there is at most one StoreMarker per (store_name, context_id).
C5_OneMarker ==
    \A ctx \in Contexts, s \in Stores : Markers(ctx, s) <= 1

\* create_store was repeated for a store whose marker stands.
C5_Witness ==
    /\ last.op = "create_store"
    /\ last.ret = DuplicateKeyError
    /\ Markers(last.ctx, last.store) = 1

\* ---------------------------------------------------------------------- C6
\* C6 as stated: create_store never ends in an error, also not where the
\* context already holds a marker of that name.
C6_Claim ==
    last.op = "create_store" => last.ret # DuplicateKeyError

\* ---------------------------------------------------------------------- C7
\* C7: cleanup() in a context leaves no store and no key there, returns the
\* number of records it removed, and changes no record and no count of any
\* other context.
C7_Cleanup ==
    [][ \A ctx \in Contexts :
          Did("cleanup", ctx, NoneStr, NoneStr)
          => /\ count_stores(ctx)' = 0
             /\ \A s \in Stores : count_keys(ctx, s)' = 0
             /\ \A d \in Docs' : d.dataset_id # ctx
             /\ OtherContexts(ctx)' = OtherContexts(ctx)
             /\ \A other \in Contexts \ {ctx} :
                   /\ count_stores(other)' = count_stores(other)
                   /\ \A s \in Stores : count_keys(other, s)' = count_keys(other, s)
             /\ last'.ret = BagCardinality(coll) - BagCardinality(coll')
      ]_vars

\* cleanup removed a store and a key of one context while the other context
\* holds a record.
C7_Witness ==
    /\ last.op = "cleanup"
    /\ last.ret >= 2
    /\ coll # EmptyBag

\* ---------------------------------------------------------------------- C8
\* The entry of (store_name, key) in ctx exists and its expires_at has passed.
Due(ctx, store_name, key) ==
    /\ get_key(ctx, store_name, key) # None
    /\ Stored(ctx, store_name, key).expires_at # None
    /\ Stored(ctx, store_name, key).expires_at[1] <= now

\* C8 as stated: after set_key(s, k, v, ttl) with a positive ttl the entry
\* is one that the sweep removes once the expiration time now + ttl has
\* passed: the stored entry carries an expires_at, no later than now + ttl.
C8_Claim ==
    [][ \A ctx \in Contexts, s \in Stores, k \in UserKeys :
          Did("set_key", ctx, s, k)
          => \A v \in Values, ttl \in { x \in TTLs : x # None /\ x[1] > 0 } :
               SetKey(ctx, s, k, v, ttl)
               => /\ Stored(ctx, s, k)'.expires_at # None
                  /\ Stored(ctx, s, k)'.expires_at[1] <= now + ttl[1]
      ]_vars

\* The part of C8 that holds, for the expiration that is stored: an entry
\* whose stored expires_at has passed is eventually removed (unless a later
\* call gives it another expiration); an entry that is not due is removed
\* by an explicit delete only, never by the sweep; and once removed,
\* get_key returns null until a call writes the entry again.
StoredExpiry ==
    /\ \A ctx \in Contexts, s \in Stores, k \in Keys :
          Due(ctx, s, k) ~> ~Due(ctx, s, k)
    /\ [][ \A ctx \in Contexts, s \in Stores, k \in Keys :
            /\ ( /\ Due(ctx, s, k)
                  /\ ~Due(ctx, s, k)' )
                => \/ get_key(ctx, s, k)' = None
                   \/ last'.op = "update_ttl"
            /\ ( /\ get_key(ctx, s, k) # None
                  /\ ~Due(ctx, s, k)
                  /\ get_key(ctx, s, k)' = None )
                => last'.op \in {"delete_key", "delete_store", "cleanup"}
            /\ ( /\ get_key(ctx, s, k) = None
                  /\ get_key(ctx, s, k)' # None )
                => last'.op \in {"set_key", "create_store"}
       ]_vars

\* The sweep removed an entry that set_key had stored with a ttl.
StoredExpiryWitness ==
    /\ last.op = "ttl_sweep"
    /\ last.key \in UserKeys
    /\ get_key(last.ctx, last.store, last.key) = None

\* ---------------------------------------------------------------------- C9
\* C9: delete_key returns true exactly when a matching entry existed; it
\* removes that one document and nothing else; after it no entry matches,
\* and a delete_key that finds none returns false and changes nothing.
C9_DeleteKey ==
    [][ \A ctx \in Contexts, s \in Stores, k \in Keys :
          Did("delete_key", ctx, s, k)
          => /\ last'.ret = (get_key(ctx, s, k) # None)
             /\ get_key(ctx, s, k) # None
                   => coll' = coll (-) SetToBag({Stored(ctx, s, k)})
             /\ get_key(ctx, s, k) = None => coll' = coll
             /\ get_key(ctx, s, k)' = None
      ]_vars

\* delete_key removed an entry and another record is still there.
C9_Witness ==
    /\ last.op = "delete_key"
    /\ last.ret = TRUE
    /\ coll # EmptyBag

\* --------------------------------------------------------------------- C10
Range(seq) == { seq[i] : i \in 1 .. Len(seq) }

\* C10: list_keys never returns the sentinel key, and count_keys is the
\* number of keys list_keys returns.
C10_ListKeys ==
    \A ctx \in Contexts, s \in Stores :
        /\ STORE_KEY \notin Range(list_keys(ctx, s))
        /\ count_keys(ctx, s) = Len(list_keys(ctx, s))

\* A store that holds its marker and one key.
C10_Witness ==
    \E ctx \in Contexts, s \in Stores :
        /\ has_store(ctx, s)
        /\ list_keys(ctx, s) = << "k1" >>
        /\ count_keys(ctx, s) = 1

\* --------------------------------------------------------------------- C11
\* C11: has_store_global(name) is true exactly when has_store(name) is true
\* in at least one context, owned or global; and right after
\* create_store(name) in a context, has_store(name) is true there, is what
\* it was in every other context (false where no store of that name was
\* created), and has_store_global(name) is true.
C11_GlobalIsAnyContext ==
    /\ [](\A s \in Stores :
            has_store_global(s) <=> \E ctx \in Contexts : has_store(ctx, s))
    /\ [][ \A ctx \in Contexts, s \in Stores :
            Did("create_store", ctx, s, STORE_KEY)
            => /\ has_store(ctx, s)'
               /\ has_store_global(s)'
               /\ \A other \in Contexts \ {ctx} :
                     has_store(other, s)' = has_store(other, s)
       ]_vars

\* Store "A" was created in one context only: it is there, it is not in the
\* other context, and it is found by the global query; store "B" is nowhere.
C11_Witness ==
    /\ last.op = "create_store"
    /\ last.store = "A"
    /\ has_store(last.ctx, "A")
    /\ \A other \in Contexts \ {last.ctx} : ~has_store(other, "A")
    /\ has_store_global("A")
    /\ ~has_store_global("B")

\* --------------------------------------------------------------------- C12
\* The last call was set_key(store_name, key, ..) in ctx and it returned an
\* entry without expiration (its ttl was omitted).
SetKeyWithoutTtlBefore(ctx, store_name, key) ==
    /\ last.op = "set_key"
    /\ last.ctx = ctx
    /\ last.store = store_name
    /\ last.key = key
    /\ last.ret.expires_at = None

\* C12 as stated: update_ttl returns true exactly when a record matched and
\* its expires_at was changed; on a key that does not exist it returns false
\* and creates nothing; and right after a set_key without ttl, update_ttl
\* with a positive ttl returns true and leaves a stored expires_at.
C12_Claim ==
    [][ \A ctx \in Contexts, s \in Stores, k \in UserKeys :
          Did("update_ttl", ctx, s, k)
          => /\ last'.ret = ( /\ get_key(ctx, s, k) # None
                              /\ Stored(ctx, s, k)'.expires_at
                                    # Stored(ctx, s, k).expires_at )
             /\ get_key(ctx, s, k) = None
                   => (last'.ret = FALSE /\ coll' = coll)
             /\ SetKeyWithoutTtlBefore(ctx, s, k)
                   => \A ttl \in { x \in TTLs : x # None /\ x[1] > 0 } :
                        UpdateTtl(ctx, s, k, ttl)
                        => /\ last'.ret = TRUE
                           /\ Stored(ctx, s, k)'.expires_at # None
      ]_vars

\* The part of C12 that holds: the return value of update_ttl tells whether
\* a stored expires_at was changed, a missing key gives false and no record,
\* and a positive ttl on an entry without expiration gives true and a
\* stored expires_at.
UpdateTtlReturn ==
    [][ \A ctx \in Contexts, s \in Stores, k \in Keys :
          Did("update_ttl", ctx, s, k)
          => /\ last'.ret = ( /\ get_key(ctx, s, k) # None
                              /\ Stored(ctx, s, k)'.expires_at
                                    # Stored(ctx, s, k).expires_at )
             /\ get_key(ctx, s, k) = None
                   => (last'.ret = FALSE /\ coll' = coll)
             /\ ( /\ get_key(ctx, s, k) # None
                  /\ Stored(ctx, s, k).expires_at = None )
                   => \A ttl \in { x \in TTLs : x # None /\ x[1] > 0 } :
                        UpdateTtl(ctx, s, k, ttl)
                        => /\ last'.ret = TRUE
                           /\ Stored(ctx, s, k)'.expires_at = Some(now + ttl[1])
      ]_vars

\* --------------------------------------------------------------------- C13
\* The documents of store store_name in context ctx: its marker and entries.
OfStore(ctx, store_name) ==
    { d \in Docs : d.store_name = store_name /\ d.dataset_id = ctx }

\* C13: delete_store(name) in a context removes the marker and every entry
\* of that store there and returns how many records it removed; afterwards
\* has_store(name) is false and count_keys(name) is 0 in that context, and
\* the records of every other store of the context and of every store of
\* any other context (also one of the same name) are as they were.
C13_DeleteStore ==
    [][ \A ctx \in Contexts, s \in Stores :
          Did("delete_store", ctx, s, NoneStr)
          => /\ OfStore(ctx, s)' = {}
             /\ last'.ret = CountDocuments(OfStore(ctx, s))
             /\ last'.ret = BagCardinality(coll) - BagCardinality(coll')
             /\ ~has_store(ctx, s)'
             /\ count_keys(ctx, s)' = 0
             /\ Restrict(coll', Docs' \ OfStore(ctx, s))
                  = Restrict(coll, Docs \ OfStore(ctx, s))
             /\ \A c \in Contexts, t \in Stores :
                   (c # ctx \/ t # s)
                   => /\ has_store(c, t)' = has_store(c, t)
                      /\ count_keys(c, t)' = count_keys(c, t)
      ]_vars

\* delete_store removed a marker and a key of one context while the other
\* context holds a record of a store of the same name.
C13_Witness ==
    /\ last.op = "delete_store"
    /\ last.ret >= 2
    /\ OfStore(last.ctx, last.store) = {}
    /\ \E d \in Docs : d.store_name = last.store /\ d.dataset_id # last.ctx

\* --------------------------------------------------------------------- C14
\* The call of caller p is on the same (store, key, context) as that of q.
SameEntry(p, q) ==
    /\ calls[p].pc # "idle"
    /\ calls[q].pc # "idle"
    /\ calls[p].ctx = calls[q].ctx
    /\ calls[p].store = calls[q].store
    /\ calls[p].key = calls[q].key

\* C14: no set_key call ends in DuplicateKeyError: every set_key that
\* returns, returns a KeyEntry; an insert that the unique index rejects is
\* run again by the engine, against the entry that made it fail; and every
\* set_key call that has begun completes.
C14_NoDuplicateError ==
    /\ [](last.op = "set_key"
            => /\ last.ret # Raised(DuplicateKeyError)
               /\ DOMAIN last.ret = DOMAIN Returned(last.ret)
               /\ last.ret.value \in Values)
    /\ [](\A p \in Procs : calls[p].pc # "raise")
    /\ [][ \A p \in Procs :
            (calls[p].pc = "insert" /\ calls'[p].pc \notin {"insert", "return"})
            => /\ calls'[p].pc = "upsert"
               /\ Find(calls[p].store, calls[p].key, calls[p].ctx)' # {}
       ]_vars
    /\ \A p \in Procs : (calls[p].pc # "idle") ~> (calls[p].pc = "idle")

\* Two calls on the same (store, key, context) ran concurrently: the first
\* inserted the entry, the insert of the second was rejected by the unique
\* index and run again, and it has updated the entry and is returning.
C14_Witness ==
    /\ SameEntry("p1", "p2")
    /\ calls["p1"].pc = "return"
    /\ calls["p1"].upserted
    /\ calls["p2"].pc = "return"
    /\ calls["p2"].retried
    /\ ~calls["p2"].upserted
    /\ CountDocuments(Find(calls["p2"].store, calls["p2"].key,
                           calls["p2"].ctx)) = 1

\* --------------------------------------------------------------------- C15
\* The documents of context ctx.
OfContext(ctx) == { d \in Docs : d.dataset_id = ctx }

\* The last step was a complete run of the bulk delete op with these
\* arguments: nothing was written since.
RanBefore(op, ctx, store_name) ==
    /\ last.op = op
    /\ last.ctx = ctx
    /\ last.store = store_name

\* A run of the bulk delete op with these arguments was cut short, and
\* nothing was written since: the collection is as that run left it.
InterruptedBefore(op, ctx, store_name) ==
    \E p \in Procs :
        /\ calls[p].pc = "interrupted"
        /\ calls[p].op = op
        /\ calls[p].ctx = ctx
        /\ calls[p].store = store_name
        /\ calls[p].left = coll

\* C15: a complete run of delete_store(name) or cleanup() leaves no matching
\* record, whatever was there: run again after a complete run it returns 0
\* and changes nothing; run again after a run that was cut short it removes
\* the matching records that run left and nothing else; a run that matches
\* nothing returns 0 (a count, no error) and changes nothing.
C15_BulkDeleteRetry ==
    [][ /\ \A ctx \in Contexts, s \in Stores :
            Did("delete_store", ctx, s, NoneStr)
            => /\ OfStore(ctx, s)' = {}
               /\ coll' = Restrict(coll, Docs \ OfStore(ctx, s))
               /\ last'.ret = CountDocuments(OfStore(ctx, s))
               /\ (OfStore(ctx, s) = {} \/ RanBefore("delete_store", ctx, s))
                     => (last'.ret = 0 /\ coll' = coll)
               /\ InterruptedBefore("delete_store", ctx, s)
                     => (last'.ret > 0 /\ OfStore(ctx, s)' = {})
        /\ \A ctx \in Contexts :
            Did("cleanup", ctx, NoneStr, NoneStr)
            => /\ OfContext(ctx)' = {}
               /\ coll' = Restrict(coll, Docs \ OfContext(ctx))
               /\ last'.ret = CountDocuments(OfContext(ctx))
               /\ (OfContext(ctx) = {} \/ RanBefore("cleanup", ctx, NoneStr))
                     => (last'.ret = 0 /\ coll' = coll)
               /\ InterruptedBefore("cleanup", ctx, NoneStr)
                     => (last'.ret > 0 /\ OfContext(ctx)' = {})
      ]_vars

\* delete_store was cut short after it had removed a part of the records of
\* the store; run again on what was left, it removed the rest, and a record
\* of the other context is still there.
C15_Witness ==
    /\ last.op = "delete_store"
    /\ last.ret >= 1
    /\ calls["p1"].pc = "interrupted"
    /\ calls["p1"].op = "delete_store"
    /\ calls["p1"].ctx = last.ctx
    /\ calls["p1"].store = last.store
    /\ BagCardinality(calls["p1"].left) - BagCardinality(coll) = last.ret
    /\ coll = Restrict(calls["p1"].left,
                       { d \in BagToSet(calls["p1"].left) :
                           ~(d.store_name = last.store /\ d.dataset_id = last.ctx) })
    /\ OfStore(last.ctx, last.store) = {}
    /\ coll # EmptyBag

\* --------------------------------------------------------------------- C16
\* The records whose key is the sentinel, in every context.
AllMarkers == Restrict(coll, { d \in Docs : d.key = STORE_KEY })

\* C16 as stated: the records whose key is the sentinel are created,
\* modified and removed by create_store, delete_store and cleanup only, and
\* has_store(name) changes by these calls only: by no set_key, update_ttl
\* or delete_key, whatever key they are given, and by no expiry sweep.
C16_Claim ==
    [][ ( \/ AllMarkers' # AllMarkers
          \/ \E ctx \in Contexts, s \in Stores :
                has_store(ctx, s)' # has_store(ctx, s) )
        => last'.op \in {"create_store", "delete_store", "cleanup"}
      ]_vars

\* The part of C16 that holds: a key-level call with a key other than the
\* sentinel leaves every record whose key is the sentinel as it was.
MarkersFrame ==
    [][ ( /\ last'.op \in {"set_key", "update_ttl", "delete_key"}
          /\ last'.key # STORE_KEY )
        => AllMarkers' = AllMarkers
      ]_vars

\* --------------------------------------------------------------------- C17
\* C17: update_ttl(store, key, ttl) changes nothing but the expires_at of
\* the one matching entry: its value, created_at and updated_at are as they
\* were, every other record of every context is as it was, and without a
\* matching entry the collection is unchanged.
C17_UpdateTtlFrame ==
    [][ \A ctx \in Contexts, s \in Stores, k \in Keys :
          Did("update_ttl", ctx, s, k)
          => /\ get_key(ctx, s, k) = None => coll' = coll
             /\ get_key(ctx, s, k) # None
                   => /\ get_key(ctx, s, k)' # None
                      /\ Stored(ctx, s, k)'
                           = [ Stored(ctx, s, k) EXCEPT
                                 !.expires_at = Stored(ctx, s, k)'.expires_at ]
                      /\ Stored(ctx, s, k)'.value = Stored(ctx, s, k).value
                      /\ Stored(ctx, s, k)'.created_at = Stored(ctx, s, k).created_at
                      /\ Stored(ctx, s, k)'.updated_at = Stored(ctx, s, k).updated_at
                      /\ coll' (-) SetToBag({Stored(ctx, s, k)'})
                           = coll (-) SetToBag({Stored(ctx, s, k)})
      ]_vars

\* update_ttl gave an expiration to an entry written at an earlier time,
\* and the collection holds another record.
C17_Witness ==
    /\ last.op = "update_ttl"
    /\ last.ret = TRUE
    /\ Stored(last.ctx, last.store, last.key).expires_at # None
    /\ Stored(last.ctx, last.store, last.key).updated_at # None
    /\ Stored(last.ctx, last.store, last.key).updated_at[1] < now
    /\ BagCardinality(coll) >= 2

\* --------------------------------------------------------------------- C18
\* C18 as stated: the KeyEntry that set_key returns agrees with the record
\* stored right after the call on value, created_at, updated_at and
\* expires_at; on creation created_at = updated_at = now, on update
\* created_at is the creation time of the entry and updated_at = now.
C18_Claim ==
    [][ \A ctx \in Contexts, s \in Stores, k \in UserKeys :
          Did("set_key", ctx, s, k)
          => /\ get_key(ctx, s, k)' # None
             /\ last'.ret = Returned(Stored(ctx, s, k)')
             /\ last'.ret.updated_at = Some(now)
             /\ get_key(ctx, s, k) = None
                   => last'.ret.created_at = Some(now)
             /\ get_key(ctx, s, k) # None
                   => last'.ret.created_at = Stored(ctx, s, k).created_at
      ]_vars

\* The part of C18 that holds: on creation the returned KeyEntry is the
\* stored record, with created_at = updated_at = now; on update the
\* returned value and updated_at = now are the stored ones.
SetKeyReturnsStored ==
    [][ \A ctx \in Contexts, s \in Stores, k \in UserKeys :
          Did("set_key", ctx, s, k)
          => /\ get_key(ctx, s, k)' # None
             /\ last'.ret.value = Stored(ctx, s, k)'.value
             /\ last'.ret.updated_at = Some(now)
             /\ last'.ret.updated_at = Stored(ctx, s, k)'.updated_at
             /\ get_key(ctx, s, k) = None
                   => /\ last'.ret = Returned(Stored(ctx, s, k)')
                      /\ last'.ret.created_at = Some(now)
      ]_vars

\* --------------------------------------------------------------------- C19
\* The expiration of a write at the present time with this ttl: now + ttl
\* for a ttl that is given and strictly positive, null otherwise.
ExpirationOf(ttl) ==
    IF ttl # None /\ ttl[1] > 0 THEN Some(now + ttl[1]) ELSE None

\* C19 as stated: the expires_at that is stored after set_key or update_ttl
\* is a date only for a ttl that is given and strictly positive, and then
\* it is now + ttl; for a ttl omitted, zero or negative it is null; so the
\* entry these calls leave never carries an expires_at that has passed at
\* the time of the write.
C19_Claim ==
    [][ \A ctx \in Contexts, s \in Stores, k \in UserKeys :
          /\ Did("set_key", ctx, s, k)
                => /\ \A v \in Values, ttl \in TTLs :
                        SetKey(ctx, s, k, v, ttl)
                        => Stored(ctx, s, k)'.expires_at
                              \in {None, ExpirationOf(ttl)}
                   /\ Stored(ctx, s, k)'.expires_at # None
                        => Stored(ctx, s, k)'.expires_at[1] > now
          /\ ( Did("update_ttl", ctx, s, k) /\ get_key(ctx, s, k) # None )
                => /\ \A ttl \in TTLs :
                        UpdateTtl(ctx, s, k, ttl)
                        => Stored(ctx, s, k)'.expires_at
                              \in {None, ExpirationOf(ttl)}
                   /\ Stored(ctx, s, k)'.expires_at # None
                        => Stored(ctx, s, k)'.expires_at[1] > now
      ]_vars

\* The part of C19 that holds, for the calls that write expires_at (set_key
\* when it creates the entry, update_ttl on an entry that exists): what they
\* store is now + ttl for a strictly positive ttl, null otherwise, and a
\* date they store lies in the future.
StoredExpiration ==
    [][ \A ctx \in Contexts, s \in Stores, k \in Keys :
          /\ ( Did("set_key", ctx, s, k) /\ get_key(ctx, s, k) = None )
                => /\ \A v \in Values, ttl \in TTLs :
                        SetKey(ctx, s, k, v, ttl)
                        => Stored(ctx, s, k)'.expires_at = ExpirationOf(ttl)
                   /\ Stored(ctx, s, k)'.expires_at # None
                        => Stored(ctx, s, k)'.expires_at[1] > now
          /\ ( Did("update_ttl", ctx, s, k) /\ get_key(ctx, s, k) # None )
                => /\ \A ttl \in TTLs :
                        UpdateTtl(ctx, s, k, ttl)
                        => Stored(ctx, s, k)'.expires_at = ExpirationOf(ttl)
                   /\ Stored(ctx, s, k)'.expires_at # None
                        => Stored(ctx, s, k)'.expires_at[1] > now
      ]_vars

\* --------------------------------------------------------------------- C20
\* C20: set_key with a key other than the sentinel, in a context that holds
\* no marker of the store, creates or updates the entry and returns it, and
\* leaves has_store, list_stores and count_stores of every context as they
\* were: so a store can hold keys while has_store is false for it.
C20_SetKeyWithoutStore ==
    [][ \A ctx \in Contexts, s \in Stores, k \in UserKeys :
          ( Did("set_key", ctx, s, k) /\ ~has_store(ctx, s) )
          => /\ get_key(ctx, s, k)' # None
             /\ last'.ret.value = Stored(ctx, s, k)'.value
             /\ count_keys(ctx, s)' > 0
             /\ ~has_store(ctx, s)'
             /\ \A c \in Contexts :
                   /\ list_stores(c)' = list_stores(c)
                   /\ count_stores(c)' = count_stores(c)
                   /\ \A t \in Stores : has_store(c, t)' = has_store(c, t)
      ]_vars

\* set_key has just created an entry in a store that was never created:
\* the store counts a key and has_store is false for it.
C20_Witness ==
    /\ last.op = "set_key"
    /\ last.key \in UserKeys
    /\ last.ret.created_at = Some(now)
    /\ count_keys(last.ctx, last.store) > 0
    /\ ~has_store(last.ctx, last.store)
    /\ count_stores(last.ctx) = 0

====
